---------------------------- MODULE Spec2Model ----------------------------
(***************************************************************************)
(* A model of aas_pydantic/convert_util.py: the annotation records         *)
(* (embedded data specifications) that carry type-shape facts on the nodes *)
(* of an AAS tree, the functions that build them from a pydantic field and *)
(* the functions that read them back; the list patcher, which works on a   *)
(* tree of collections; and the functions of one argument (description,    *)
(* datatype table, attributes of a pydantic object).                       *)
(*                                                                         *)
(* Strings are sequences of one-character strings, so that the case        *)
(* conversions of stringcase act on them character by character.           *)
(***************************************************************************)
EXTENDS Naturals, Sequences, FiniteSets

VARIABLES
    item,     \* the basyx node the functions are called on
    result,   \* the last call: [op, arg, out]
    fields,   \* model_fields of the pydantic type being encoded, in order
    encoded,  \* how many of the fields have their records on the node
    uuids,    \* how many uuid4 tokens have been drawn
    heap,     \* the objects of a second tree, the one the list patcher works on
    suffix,   \* how many sentinel identifiers the list patcher has given out
    elements  \* the collections the tree of the list patcher was built with

vars == <<item, result, fields, encoded, uuids, heap, suffix, elements>>
\* the state of the encoding pass
enc == <<fields, encoded, uuids>>
\* the tree of the list patcher
tree == <<heap, suffix, elements>>

(***************************************************************************)
(* Bounds of the model.                                                    *)
(***************************************************************************)
\* the longest list of embedded data specifications a tree is read with
MaxRecs == 3
\* the most attributes a pydantic type declares
MaxFields == 2

(***************************************************************************)
(* The values the model draws from.                                        *)
(***************************************************************************)
\* the three node classes of the Union in every signature
Kinds == {"AssetAdministrationShell", "Submodel", "SubmodelElementCollection"}

\* nodes that have an `id` (hasattr(item, "id")): the Identifiables
HasId(kind) == kind \in {"AssetAdministrationShell", "Submodel"}

\* Python's None
None == <<"None">>

\* id_shorts: a_b, Ab, a
IdShorts == {<<"a", "_", "b">>, <<"A", "b">>, <<"a">>}
\* the id of a shell or submodel
Ids == {<<"i">>}
\* an identifier no node of the model has
OtherId == <<"x">>
\* the `id` of a node that has none (never read: guarded by HasId)
NoId == <<>>

\* attribute names
AttrNames == {<<"p">>, <<"q">>}
\* class names
ClassNames == {<<"C">>, <<"D">>}
\* payloads of `default` records
DefaultValues == {<<"v">>, <<"w">>}

\* One EmbeddedDataSpecification: the values of the keys of its reference,
\* whether its content is a DataSpecificationIEC61360, and the content's
\* preferred_name["en"] and value.
Rec(key, name, value) == [key |-> key, iec |-> TRUE, name |-> name, value |-> value]
\* a data specification whose content is of another class than IEC61360
NonIec(key, name, value) == [key |-> key, iec |-> FALSE, name |-> name, value |-> value]

Node(kind, id, id_short, eds) ==
    [kind |-> kind, id |-> id, id_short |-> id_short,
     embedded_data_specifications |-> eds]

\* what a call gives back
Return(v) == [status |-> "return", val |-> v]
RaiseValueError == [status |-> "ValueError", val |-> <<>>]

Call(op, arg, out) == [op |-> op, arg |-> arg, out |-> out]
Idle == Call("idle", <<>>, Return(None))

\* any(key.value == x for key in data_spec.data_specification.key)
AnyKey(rec, x) == \E k \in 1..Len(rec.key) : rec.key[k] = x

(***************************************************************************)
(* The boolean queries.                                                    *)
(***************************************************************************)
RECURSIVE ImmutableLoop(_, _, _)
ImmutableLoop(eds, i, attribute_name) ==
    IF i > Len(eds) THEN FALSE
    ELSE IF ~eds[i].iec THEN ImmutableLoop(eds, i + 1, attribute_name)
    ELSE IF eds[i].name # "immutable" THEN ImmutableLoop(eds, i + 1, attribute_name)
    ELSE eds[i].value = attribute_name

is_attribute_from_basyx_model_immutable(it, attribute_name) ==
    IF it.embedded_data_specifications = <<>> THEN FALSE
    ELSE ImmutableLoop(it.embedded_data_specifications, 1, attribute_name)

RECURSIVE OptionalLoop(_, _, _)
OptionalLoop(eds, i, attribute_name) ==
    IF i > Len(eds) THEN FALSE
    ELSE IF ~eds[i].iec THEN OptionalLoop(eds, i + 1, attribute_name)
    ELSE IF ~(eds[i].name = "optional" /\ eds[i].value = attribute_name)
         THEN OptionalLoop(eds, i + 1, attribute_name)
    ELSE TRUE

\* mutant: the scan answers on the first `optional` record, as the
\* immutable scan does
RECURSIVE OptionalFirstLoop(_, _, _)
OptionalFirstLoop(eds, i, attribute_name) ==
    IF i > Len(eds) THEN FALSE
    ELSE IF ~eds[i].iec THEN OptionalFirstLoop(eds, i + 1, attribute_name)
    ELSE IF eds[i].name # "optional" THEN OptionalFirstLoop(eds, i + 1, attribute_name)
    ELSE eds[i].value = attribute_name

is_optional_first_record(it, attribute_name) ==
    IF it.embedded_data_specifications = <<>> THEN TRUE
    ELSE OptionalFirstLoop(it.embedded_data_specifications, 1, attribute_name)

\* mutant: an untagged node is presumed not optional, like the other two
is_optional_default_false(it, attribute_name) ==
    IF it.embedded_data_specifications = <<>> THEN FALSE
    ELSE OptionalLoop(it.embedded_data_specifications, 1, attribute_name)

is_optional_attribute_type(it, attribute_name) ==
    IF it.embedded_data_specifications = <<>> THEN TRUE
    ELSE OptionalLoop(it.embedded_data_specifications, 1, attribute_name)

RECURSIVE UnionLoop(_, _, _)
UnionLoop(eds, i, attribute_name) ==
    IF i > Len(eds) THEN FALSE
    ELSE IF ~eds[i].iec THEN UnionLoop(eds, i + 1, attribute_name)
    ELSE IF ~(eds[i].name = "union" /\ eds[i].value = attribute_name)
         THEN UnionLoop(eds, i + 1, attribute_name)
    ELSE TRUE

\* mutant: only the last record is looked at
is_union_last_record(it, attribute_name) ==
    LET eds == it.embedded_data_specifications IN
    IF eds = <<>> THEN FALSE
    ELSE /\ eds[Len(eds)].iec
         /\ eds[Len(eds)].name = "union"
         /\ eds[Len(eds)].value = attribute_name

is_union_attribute_type(it, attribute_name) ==
    IF it.embedded_data_specifications = <<>> THEN FALSE
    ELSE UnionLoop(it.embedded_data_specifications, 1, attribute_name)

(***************************************************************************)
(* stringcase.camelcase, as line 184 calls it.                             *)
(***************************************************************************)
LowerLetters == <<"a", "b">>
UpperLetters == <<"A", "B">>

\* str.lower and str.upper of one character
lowercase(c) ==
    IF \E k \in 1..Len(UpperLetters) : UpperLetters[k] = c
    THEN LowerLetters[CHOOSE k \in 1..Len(UpperLetters) : UpperLetters[k] = c]
    ELSE c
uppercase(c) ==
    IF \E k \in 1..Len(LowerLetters) : LowerLetters[k] = c
    THEN UpperLetters[CHOOSE k \in 1..Len(LowerLetters) : LowerLetters[k] = c]
    ELSE c

\* the classes [a-z], [\-_\.] and [\-_\.\s] of its regular expressions
IsLower(c) == \E k \in 1..Len(LowerLetters) : LowerLetters[k] = c
IsLeadingSep(c) == c \in {"-", "_", "."}
IsSep(c) == c \in {"-", "_", ".", " "}

\* re.sub(r"[\-_\.\s]([a-z])", upper of group 1, s), from position i on
RECURSIVE SubSepLower(_, _)
SubSepLower(s, i) ==
    IF i > Len(s) THEN <<>>
    ELSE IF i < Len(s) /\ IsSep(s[i]) /\ IsLower(s[i + 1])
         THEN <<uppercase(s[i + 1])>> \o SubSepLower(s, i + 2)
    ELSE <<s[i]>> \o SubSepLower(s, i + 1)

\* re.sub(r"^[\-_\.]", "", string), then the first character lowered and
\* every separator before a lower-case letter replaced by the letter raised
camelcase(string) ==
    LET s0 == string
        s == IF s0 # <<>> /\ IsLeadingSep(s0[1]) THEN Tail(s0) ELSE s0
    IN  IF s = <<>> THEN s
        ELSE <<lowercase(s[1])>> \o SubSepLower(Tail(s), 1)

(***************************************************************************)
(* Class name resolution.                                                  *)
(***************************************************************************)
\* lines 153-158: the record's reference names the node
condition_smc(it, rec) == AnyKey(rec, it.id_short)
condition_aas_sm(it, rec) == HasId(it.kind) /\ AnyKey(rec, it.id)

RECURSIVE ClassNameLoop(_, _)
ClassNameLoop(it, i) ==
    LET eds == it.embedded_data_specifications IN
    IF i > Len(eds) THEN RaiseValueError
    ELSE IF ~eds[i].iec THEN ClassNameLoop(it, i + 1)
    ELSE IF eds[i].name # "class" THEN ClassNameLoop(it, i + 1)
    ELSE IF ~condition_smc(it, eds[i]) /\ ~condition_aas_sm(it, eds[i])
         THEN ClassNameLoop(it, i + 1)
    ELSE Return(eds[i].value)

\* mutant: a later matching `class` record overrides an earlier one
RECURSIVE ClassNameLastLoop(_, _, _)
ClassNameLastLoop(it, i, found) ==
    LET eds == it.embedded_data_specifications IN
    IF i > Len(eds) THEN found
    ELSE IF eds[i].iec /\ eds[i].name = "class"
            /\ (condition_smc(it, eds[i]) \/ condition_aas_sm(it, eds[i]))
         THEN ClassNameLastLoop(it, i + 1, Return(eds[i].value))
    ELSE ClassNameLastLoop(it, i + 1, found)

get_class_name_last_match(it) ==
    IF it.embedded_data_specifications = <<>> THEN Return(it.id_short)
    ELSE ClassNameLastLoop(it, 1, RaiseValueError)

\* mutant: with no matching `class` record the id_short is the class name
get_class_name_fallback(it) ==
    IF it.embedded_data_specifications = <<>> THEN Return(it.id_short)
    ELSE IF ClassNameLoop(it, 1) = RaiseValueError THEN Return(it.id_short)
    ELSE ClassNameLoop(it, 1)

\* mutant: the first `class` record is taken, whatever its reference names
RECURSIVE ClassNameAnyKeyLoop(_, _)
ClassNameAnyKeyLoop(it, i) ==
    LET eds == it.embedded_data_specifications IN
    IF i > Len(eds) THEN RaiseValueError
    ELSE IF eds[i].iec /\ eds[i].name = "class" THEN Return(eds[i].value)
    ELSE ClassNameAnyKeyLoop(it, i + 1)

get_class_name_any_key(it) ==
    IF it.embedded_data_specifications = <<>> THEN Return(it.id_short)
    ELSE ClassNameAnyKeyLoop(it, 1)

get_class_name_from_basyx_model(it) ==
    IF it.embedded_data_specifications = <<>> THEN Return(it.id_short)
    ELSE ClassNameLoop(it, 1)

\* mutant: the conversion is applied to collections only
get_class_name_template_by_kind(it) ==
    IF it.embedded_data_specifications = <<>>
    THEN IF HasId(it.kind) THEN Return(it.id_short)
         ELSE Return(camelcase(it.id_short))
    ELSE get_class_name_from_basyx_model(it)

get_class_name_from_basyx_template(it) ==
    IF it.embedded_data_specifications = <<>> THEN Return(camelcase(it.id_short))
    ELSE get_class_name_from_basyx_model(it)

(***************************************************************************)
(* Attribute name resolution.                                              *)
(***************************************************************************)
IsUpper(c) == \E k \in 1..Len(UpperLetters) : UpperLetters[k] = c

\* re.sub(r"[A-Z]", "_" + lower of the match, s), from position i on
RECURSIVE SubUpper(_, _)
SubUpper(s, i) ==
    IF i > Len(s) THEN <<>>
    ELSE IF IsUpper(s[i]) THEN <<"_", lowercase(s[i])>> \o SubUpper(s, i + 1)
    ELSE <<s[i]>> \o SubUpper(s, i + 1)

\* stringcase.snakecase, as lines 208 and 248 call it: "-", "." and white
\* space become "_", the first character is lowered, and every later
\* upper-case letter becomes "_" and the letter lowered
snakecase(string) ==
    LET s == [k \in 1..Len(string) |->
                 IF string[k] \in {"-", ".", " "} THEN "_" ELSE string[k]]
    IN  IF s = <<>> THEN s
        ELSE <<lowercase(s[1])>> \o SubUpper(Tail(s), 1)

RECURSIVE AttributeNameLoop(_, _, _, _)
AttributeNameLoop(eds, i, referenced_item_id, attribute_names) ==
    IF i > Len(eds) THEN attribute_names
    ELSE IF ~eds[i].iec
         THEN AttributeNameLoop(eds, i + 1, referenced_item_id, attribute_names)
    ELSE IF ~AnyKey(eds[i], referenced_item_id)
         THEN AttributeNameLoop(eds, i + 1, referenced_item_id, attribute_names)
    ELSE IF eds[i].name # "attribute"
         THEN AttributeNameLoop(eds, i + 1, referenced_item_id, attribute_names)
    ELSE AttributeNameLoop(eds, i + 1, referenced_item_id,
                           Append(attribute_names, eds[i].value))

\* mutant: only the first matching `attribute` record is collected
get_attribute_name_first_only(it, referenced_item_id) ==
    IF it.embedded_data_specifications = <<>>
    THEN Return(snakecase(referenced_item_id))
    ELSE LET attribute_names ==
                 AttributeNameLoop(it.embedded_data_specifications, 1,
                                   referenced_item_id, <<>>)
         IN  IF attribute_names # <<>> THEN Return(<<attribute_names[1]>>)
             ELSE RaiseValueError

get_attribute_name_from_basyx_model(it, referenced_item_id) ==
    IF it.embedded_data_specifications = <<>>
    THEN Return(snakecase(referenced_item_id))
    ELSE LET attribute_names ==
                 AttributeNameLoop(it.embedded_data_specifications, 1,
                                   referenced_item_id, <<>>)
         IN  IF attribute_names # <<>> THEN Return(attribute_names)
             ELSE RaiseValueError

get_attribute_names_from_basyx_template(it, referenced_item_id_short) ==
    IF it.embedded_data_specifications = <<>>
    THEN Return(<<snakecase(referenced_item_id_short)>>)
    ELSE get_attribute_name_from_basyx_model(it, referenced_item_id_short)

(***************************************************************************)
(* Default value resolution.                                               *)
(***************************************************************************)
RECURSIVE DefaultValueLoop(_, _, _)
DefaultValueLoop(eds, i, attribute_id) ==
    IF i > Len(eds) THEN Return(None)
    ELSE IF ~eds[i].iec THEN DefaultValueLoop(eds, i + 1, attribute_id)
    ELSE IF eds[i].name # "default" THEN DefaultValueLoop(eds, i + 1, attribute_id)
    ELSE IF ~AnyKey(eds[i], attribute_id)
         THEN DefaultValueLoop(eds, i + 1, attribute_id)
    ELSE Return(eds[i].value)

\* mutant: the reference of the `default` record is not compared
RECURSIVE DefaultValueAnyKeyLoop(_, _, _)
DefaultValueAnyKeyLoop(eds, i, attribute_id) ==
    IF i > Len(eds) THEN Return(None)
    ELSE IF ~eds[i].iec THEN DefaultValueAnyKeyLoop(eds, i + 1, attribute_id)
    ELSE IF eds[i].name # "default"
         THEN DefaultValueAnyKeyLoop(eds, i + 1, attribute_id)
    ELSE Return(eds[i].value)

get_default_value_any_key(it, attribute_id) ==
    IF it.embedded_data_specifications = <<>> THEN Return(None)
    ELSE DefaultValueAnyKeyLoop(it.embedded_data_specifications, 1, attribute_id)

get_default_value_from_basyx_model(it, attribute_id) ==
    IF it.embedded_data_specifications = <<>> THEN Return(None)
    ELSE DefaultValueLoop(it.embedded_data_specifications, 1, attribute_id)

(***************************************************************************)
(* Building the records of a pydantic model and of its attributes.         *)
(***************************************************************************)
\* FieldInfo.annotation: its text, and what typing.get_origin and
\* typing.get_args give for it
Annotation(text, origin, args) == [text |-> text, origin |-> origin, args |-> args]
\* get_origin gives None for a plain class such as int
NoOrigin == "None"

\* FieldInfo.default of a field declared without a default
PydanticUndefined == <<"PydanticUndefined">>

\* AttributeFieldInfo: name and field_info (annotation, default)
AttributeFieldInfo(name, annotation, default) ==
    [name |-> name, annotation |-> annotation, default |-> default]

\* an aas_model object: its class, its identifiers and its class name
ModelObject(kind, id, id_short, class_name) ==
    [kind |-> kind, id |-> id, id_short |-> id_short, class_name |-> class_name]

\* isinstance(item, typing.Union[aas_model.AAS, aas_model.Submodel])
IsAasOrSubmodel(obj) == obj.kind \in {"AssetAdministrationShell", "Submodel"}

\* uuid.uuid4().hex: the n-th token drawn; no two draws give the same token
Uuid(n) == [k \in 1..n |-> "u"]

get_data_specification_for_model(obj) ==
    <<Rec(<<IF IsAasOrSubmodel(obj) THEN obj.id ELSE obj.id_short>>,
          "class", obj.class_name)>>

\* `basyx_attribute` is <<>> for None and <<obj>> for an object; `drawn` is
\* the number of tokens drawn before the call
get_model_keys_for_data_specification(basyx_attribute, drawn) ==
    IF basyx_attribute = <<>> THEN <<Uuid(drawn + 1)>>
    ELSE <<IF IsAasOrSubmodel(basyx_attribute[1]) THEN basyx_attribute[1].id
           ELSE basyx_attribute[1].id_short>>

\* each of the following gives <<>> for None and <<record>> for a record
get_optional_data_specification_for_attribute(attribute_field_info, drawn) ==
    LET annotation == attribute_field_info.annotation IN
    IF ~(/\ annotation.origin = "Union"
         /\ \E k \in 1..Len(annotation.args) : annotation.args[k] = "NoneType")
    THEN <<>>
    ELSE <<Rec(get_model_keys_for_data_specification(<<>>, drawn),
               "optional", attribute_field_info.name)>>

get_union_data_specification_for_attribute(attribute_field_info, drawn) ==
    LET annotation == attribute_field_info.annotation IN
    IF ~(/\ annotation.origin = "Union"
         /\ Len(SelectSeq(annotation.args, LAMBDA arg : arg # "NoneType")) > 1)
    THEN <<>>
    ELSE <<Rec(get_model_keys_for_data_specification(<<>>, drawn),
               "union", attribute_field_info.name)>>

get_immutable_data_specification_for_attribute_name(attribute_name, drawn) ==
    Rec(get_model_keys_for_data_specification(<<>>, drawn),
        "immutable", attribute_name)

get_immutable_data_specification_for_attribute(attribute_field_info, drawn) ==
    IF ~(attribute_field_info.annotation.origin = "tuple") THEN <<>>
    ELSE <<get_immutable_data_specification_for_attribute_name(
               attribute_field_info.name, drawn)>>

get_default_data_specification_for_attribute(attribute_field_info, basyx_attribute, drawn) ==
    <<Rec(get_model_keys_for_data_specification(basyx_attribute, drawn),
          "default", attribute_field_info.default)>>

\* the tokens a list of records took from uuid4
Drawn(records, basyx_attribute) ==
    Len(SelectSeq(records,
                  LAMBDA rec : rec.name # "default" \/ basyx_attribute = <<>>))

(***************************************************************************)
(* The nodes a call can be made on, and the records a tree can carry.      *)
(* A tree is read once the pass that writes it is over.                    *)
(***************************************************************************)
\* a node as constructed, before any data specification is attached
NewNodes ==
    {Node(kind, id, id_short, <<>>) :
        kind \in {k \in Kinds : HasId(k)}, id \in Ids, id_short \in IdShorts}
    \cup {Node(kind, NoId, id_short, <<>>) :
        kind \in {k \in Kinds : ~HasId(k)}, id_short \in IdShorts}

\* attach: one more embedded data specification at the end of the list
Attach(rec) ==
    /\ Len(item.embedded_data_specifications) < MaxRecs
    /\ item' = [item EXCEPT !.embedded_data_specifications = Append(@, rec)]
    /\ result' = Idle
    /\ UNCHANGED <<enc, tree>>

CallIsImmutable(attribute_name) ==
    /\ encoded = Len(fields)
    /\ result' = Call("is_attribute_from_basyx_model_immutable", attribute_name,
                      Return(is_attribute_from_basyx_model_immutable(item, attribute_name)))
    /\ UNCHANGED <<item, enc, tree>>

CallIsOptional(attribute_name) ==
    /\ encoded = Len(fields)
    /\ result' = Call("is_optional_attribute_type", attribute_name,
                      Return(is_optional_attribute_type(item, attribute_name)))
    /\ UNCHANGED <<item, enc, tree>>

CallIsUnion(attribute_name) ==
    /\ encoded = Len(fields)
    /\ result' = Call("is_union_attribute_type", attribute_name,
                      Return(is_union_attribute_type(item, attribute_name)))
    /\ UNCHANGED <<item, enc, tree>>

CallGetClassName ==
    /\ result' = Call("get_class_name_from_basyx_model", <<>>,
                      get_class_name_from_basyx_model(item))
    /\ UNCHANGED <<item, enc, tree>>

\* the classes get_class_name_from_basyx_template is declared for
TemplateKinds == {"Submodel", "SubmodelElementCollection"}

CallGetClassNameTemplate ==
    /\ item.kind \in TemplateKinds
    /\ result' = Call("get_class_name_from_basyx_template", <<>>,
                      get_class_name_from_basyx_template(item))
    /\ UNCHANGED <<item, enc, tree>>

CallGetAttributeName(referenced_item_id) ==
    /\ result' = Call("get_attribute_name_from_basyx_model", referenced_item_id,
                      get_attribute_name_from_basyx_model(item, referenced_item_id))
    /\ UNCHANGED <<item, enc, tree>>

CallGetAttributeNamesTemplate(referenced_item_id_short) ==
    /\ result' = Call("get_attribute_names_from_basyx_template",
                      referenced_item_id_short,
                      get_attribute_names_from_basyx_template(
                          item, referenced_item_id_short))
    /\ UNCHANGED <<item, enc, tree>>

CallGetDefaultValue(attribute_id) ==
    /\ result' = Call("get_default_value_from_basyx_model", attribute_id,
                      get_default_value_from_basyx_model(item, attribute_id))
    /\ UNCHANGED <<item, enc, tree>>

\* D is a SubmodelElementCollection class of the schema
NestedModel == Annotation("D", NoOrigin, <<>>)

\* the basyx_attribute the pass hands over with a field: the object, for an
\* attribute that is itself a model object, and None for any other
BasyxAttributes(attribute_field_info) ==
    IF attribute_field_info.annotation = NestedModel
    THEN {<<ModelObject("SubmodelElementCollection", NoId, <<"b">>, <<"D">>)>>}
    ELSE {<<>>}

\* The encoding pass over one attribute: the records the four checks give
\* for it are attached to the node, in the order optional, union,
\* immutable, default.
EncodeAttribute ==
    /\ encoded < Len(fields)
    /\ \E basyx_attribute \in BasyxAttributes(fields[encoded + 1]) :
       LET attribute_field_info == fields[encoded + 1]
           optional == get_optional_data_specification_for_attribute(
                           attribute_field_info, uuids)
           union == get_union_data_specification_for_attribute(
                        attribute_field_info, uuids + Len(optional))
           immutable == get_immutable_data_specification_for_attribute(
                            attribute_field_info,
                            uuids + Len(optional) + Len(union))
           default == get_default_data_specification_for_attribute(
                          attribute_field_info, basyx_attribute,
                          uuids + Len(optional) + Len(union) + Len(immutable))
           records == optional \o union \o immutable \o default
       IN  /\ item' = [item EXCEPT !.embedded_data_specifications = @ \o records]
           /\ uuids' = uuids + Drawn(records, basyx_attribute)
           /\ result' = Call("encode", attribute_field_info, Return(records))
    /\ encoded' = encoded + 1
    /\ UNCHANGED <<fields, tree>>

(***************************************************************************)
(* Spec: the three boolean queries on a node of any record list.           *)
(***************************************************************************)
\* the reference of a marker record is a generated token or an identifier
MarkerKeys == {<<OtherId>>, << <<"a">> >>}

PredicateRecords ==
    {Rec(key, "optional", a) : key \in MarkerKeys, a \in AttrNames}
    \cup {Rec(key, "union", a) : key \in MarkerKeys, a \in AttrNames}
    \cup {Rec(<<OtherId>>, "immutable", a) : a \in AttrNames}
    \cup {Rec(<< <<"a">> >>, "class", <<"p">>)}
    \cup {NonIec(<<OtherId>>, "immutable", <<"p">>)}

PredicateNodes ==
    {n \in NewNodes : n.id_short = <<"a">>}

Init ==
    /\ fields = <<>>
    /\ encoded = 0
    /\ uuids = 0
    /\ heap = <<>>
    /\ suffix = 0
    /\ elements = <<>>
    /\ item \in PredicateNodes
    /\ result = Idle

Next ==
    \/ \E rec \in PredicateRecords : Attach(rec)
    \/ \E a \in AttrNames : CallIsImmutable(a)
    \/ \E a \in AttrNames : CallIsOptional(a)
    \/ \E a \in AttrNames : CallIsUnion(a)

Spec == Init /\ [][Next]_vars

(***************************************************************************)
(* SpecClassName: class name resolution on a node of any record list.      *)
(***************************************************************************)
\* references naming the id_short a_b, the id, another node, and both
ClassKeys ==
    {<< <<"a", "_", "b">> >>, << <<"i">> >>, <<OtherId>>, <<OtherId, <<"i">> >>}

ClassNameRecords ==
    {Rec(key, "class", c) : key \in ClassKeys, c \in ClassNames}
    \cup {Rec(<< <<"a", "_", "b">> >>, "attribute", <<"C">>)}
    \cup {NonIec(<< <<"a", "_", "b">> >>, "class", <<"D">>)}

InitClassName ==
    /\ fields = <<>>
    /\ encoded = 0
    /\ uuids = 0
    /\ heap = <<>>
    /\ suffix = 0
    /\ elements = <<>>
    /\ item \in NewNodes
    /\ result = Idle

NextClassName ==
    \/ \E rec \in ClassNameRecords : Attach(rec)
    \/ CallGetClassName
    \/ CallGetClassNameTemplate

SpecClassName == InitClassName /\ [][NextClassName]_vars

(***************************************************************************)
(* SpecLookup: attribute name and default value resolution for a child of  *)
(* a node of any record list.                                              *)
(***************************************************************************)
\* the identifiers of the referenced children: b and aB
RefIds == {<<"b">>, <<"a", "B">>}

LookupRecords ==
    {Rec(key, "attribute", a) :
        key \in {<< <<"b">> >>, << <<"a", "B">> >>, <<OtherId, <<"b">> >>},
        a \in AttrNames}
    \cup {Rec(<< <<"b">> >>, "default", v) : v \in DefaultValues}
    \cup {Rec(<< <<"a", "B">> >>, "default", <<"v">>)}
    \cup {Rec(<< <<"b">> >>, "class", <<"C">>)}
    \cup {NonIec(<< <<"b">> >>, "attribute", <<"p">>)}

LookupNodes ==
    {n \in NewNodes : n.id_short = <<"a">>}

InitLookup ==
    /\ fields = <<>>
    /\ encoded = 0
    /\ uuids = 0
    /\ heap = <<>>
    /\ suffix = 0
    /\ elements = <<>>
    /\ item \in LookupNodes
    /\ result = Idle

NextLookup ==
    \/ \E rec \in LookupRecords : Attach(rec)
    \/ \E r \in RefIds : CallGetAttributeName(r)
    \/ \E r \in RefIds : CallGetAttributeNamesTemplate(r)
    \/ \E r \in RefIds : CallGetDefaultValue(r)

SpecLookup == InitLookup /\ [][NextLookup]_vars

(***************************************************************************)
(* SpecEncode: the records of a pydantic object and of the attributes of   *)
(* its type are attached to its node, and the queries read them back.      *)
(***************************************************************************)
FieldNames == AttrNames \cup {<<"r">>}

Annotations ==
    {Annotation("int", NoOrigin, <<>>),
     NestedModel,
     Annotation("Optional[int]", "Union", <<"int", "NoneType">>),
     Annotation("Union[int, str]", "Union", <<"int", "str">>),
     Annotation("Optional[Union[int, str]]", "Union", <<"int", "str", "NoneType">>),
     \* X | Y is a types.UnionType: get_origin gives types.UnionType for it
     \* and not typing.Union (a Python that gives typing.Union for it makes
     \* it the same annotation as the typing.Union of the same alternatives)
     Annotation("int | None", "UnionType", <<"int", "NoneType">>),
     Annotation("int | str", "UnionType", <<"int", "str">>),
     Annotation("Tuple[int, str]", "tuple", <<"int", "str">>),
     Annotation("List[int]", "list", <<"int">>)}

Defaults == {PydanticUndefined, <<"v">>}

FieldInfos ==
    {AttributeFieldInfo(name, annotation, default) :
        name \in FieldNames, annotation \in Annotations, default \in Defaults}

\* model_fields is a dict: no two fields of a type share a name
FieldLists ==
    UNION {{fs \in [1..n -> FieldInfos] :
               \A j, k \in 1..n : j # k => fs[j].name # fs[k].name} :
           n \in 0..MaxFields}

\* the objects that are encoded: one of each class
EncodedObjects ==
    {ModelObject(kind, id, <<"a">>, <<"C">>) :
        kind \in {k \in Kinds : HasId(k)}, id \in Ids}
    \cup {ModelObject(kind, NoId, <<"a">>, <<"C">>) :
        kind \in {k \in Kinds : ~HasId(k)}}

InitEncode ==
    /\ fields \in FieldLists
    /\ encoded = 0
    /\ uuids = 0
    /\ heap = <<>>
    /\ suffix = 0
    /\ elements = <<>>
    /\ \E obj \in EncodedObjects :
           item = Node(obj.kind, obj.id, obj.id_short,
                       get_data_specification_for_model(obj))
    /\ result = Idle

NextEncode ==
    \/ EncodeAttribute
    \/ \E a \in FieldNames : CallIsImmutable(a)
    \/ \E a \in FieldNames : CallIsOptional(a)
    \/ \E a \in FieldNames : CallIsUnion(a)

SpecEncode == InitEncode /\ [][NextEncode]_vars

(***************************************************************************)
(* The claims about the boolean queries.                                   *)
(***************************************************************************)
\* some IEC61360 record of the node is named `name` and has payload `a`
SomeRecord(name, a) ==
    \E i \in 1..Len(item.embedded_data_specifications) :
        /\ item.embedded_data_specifications[i].iec
        /\ item.embedded_data_specifications[i].name = name
        /\ item.embedded_data_specifications[i].value = a

\* C1: the immutable query answers true exactly when some `immutable` record
\* of the node has the attribute name as payload, whatever `immutable`
\* records for other attribute names come before it.
C1_ImmutableIffSomeRecord ==
    result.op = "is_attribute_from_basyx_model_immutable"
        => (result.out.val = SomeRecord("immutable", result.arg))

C3_OptionalUnionIffSomeRecord ==
    item.embedded_data_specifications # <<>> =>
        /\ result.op = "is_optional_attribute_type"
               => (result.out.val = SomeRecord("optional", result.arg))
        /\ result.op = "is_union_attribute_type"
               => (result.out.val = SomeRecord("union", result.arg))

\* the answer is true although the first `optional` record names another
\* attribute and the matching one carries another reference
C3_Witness ==
    /\ Len(item.embedded_data_specifications) >= 2
    /\ item.embedded_data_specifications[1].iec
    /\ item.embedded_data_specifications[1].name = "optional"
    /\ item.embedded_data_specifications[1].value # result.arg
    /\ item.embedded_data_specifications[2].name = "optional"
    /\ item.embedded_data_specifications[2].value = result.arg
    /\ item.embedded_data_specifications[2].key # item.embedded_data_specifications[1].key
    /\ result.op = "is_optional_attribute_type"
    /\ result.out = Return(TRUE)

(***************************************************************************)
(* The claims about class name resolution.                                 *)
(***************************************************************************)
ClassNameOps ==
    {"get_class_name_from_basyx_model", "get_class_name_from_basyx_template"}

\* the places of the `class` records whose reference names the node itself,
\* by its id_short or, on a shell or submodel, by its id
OwnClassRecords ==
    {i \in 1..Len(item.embedded_data_specifications) :
        LET rec == item.embedded_data_specifications[i] IN
        /\ rec.iec
        /\ rec.name = "class"
        /\ \E k \in 1..Len(rec.key) :
               \/ rec.key[k] = item.id_short
               \/ item.kind # "SubmodelElementCollection" /\ rec.key[k] = item.id}

\* C5: with two or more `class` records naming the node, the class name is
\* the payload of the first of them; later ones never override it.
C5_FirstMatch ==
    (result.op \in ClassNameOps /\ Cardinality(OwnClassRecords) >= 2) =>
        \E i \in OwnClassRecords :
            /\ \A j \in OwnClassRecords : i <= j
            /\ result.out = Return(item.embedded_data_specifications[i].value)

\* two records name the node with different payloads; the first one wins
C5_Witness ==
    /\ result.op \in ClassNameOps
    /\ \E i, j \in OwnClassRecords :
           /\ i < j
           /\ \A k \in OwnClassRecords : i <= k
           /\ item.embedded_data_specifications[i].value
                  # item.embedded_data_specifications[j].value
           /\ result.out = Return(item.embedded_data_specifications[i].value)

\* C6: on a node with at least one record and no `class` record naming the
\* node, resolution fails; it never falls back to the identifier.
C6_NoClassRecordRaises ==
    (/\ result.op \in ClassNameOps
     /\ item.embedded_data_specifications # <<>>
     /\ OwnClassRecords = {})
        => result.out = RaiseValueError

\* the node has a `class` record, keyed to another node, and the call fails
C6_Witness ==
    /\ result.op \in ClassNameOps
    /\ OwnClassRecords = {}
    /\ \E i \in 1..Len(item.embedded_data_specifications) :
           /\ item.embedded_data_specifications[i].iec
           /\ item.embedded_data_specifications[i].name = "class"
    /\ result.out = RaiseValueError

AttributeNameOps ==
    {"get_attribute_name_from_basyx_model",
     "get_attribute_names_from_basyx_template"}

\* the places of the records named `name` whose reference holds `id`
RecordsFor(name, id) ==
    {i \in 1..Len(item.embedded_data_specifications) :
        LET rec == item.embedded_data_specifications[i] IN
        /\ rec.iec
        /\ rec.name = name
        /\ \E k \in 1..Len(rec.key) : rec.key[k] = id}

\* the k-th smallest place of a set of places
Nth(places, k) ==
    CHOOSE i \in places : Cardinality({j \in places : j <= i}) = k

\* C8: on a parent with at least one record, the attribute names of a
\* referenced child are the payloads of all `attribute` records whose
\* reference holds the child's identifier, in order and none omitted; the
\* call fails exactly when there is no such record.
C8_AllAttributeRecords ==
    (result.op \in AttributeNameOps /\ item.embedded_data_specifications # <<>>) =>
        LET places == RecordsFor("attribute", result.arg) IN
        IF places = {} THEN result.out = RaiseValueError
        ELSE /\ result.out.status = "return"
             /\ Len(result.out.val) = Cardinality(places)
             /\ \A k \in 1..Cardinality(places) :
                    result.out.val[k]
                        = item.embedded_data_specifications[Nth(places, k)].value

\* two matching records with different payloads and a record for another
\* child between them: both names come back, in order
C8_Witness ==
    /\ result.op \in AttributeNameOps
    /\ Len(item.embedded_data_specifications) = 3
    /\ RecordsFor("attribute", result.arg) = {1, 3}
    /\ item.embedded_data_specifications[2].name = "attribute"
    /\ item.embedded_data_specifications[1].value
           # item.embedded_data_specifications[3].value
    /\ result.out = Return(<<item.embedded_data_specifications[1].value,
                             item.embedded_data_specifications[3].value>>)

\* C9: the default value of an attribute identifier is the payload of the
\* first `default` record whose reference holds the identifier; records of
\* other names or for other identifiers are ignored; without records or
\* without such a record the call gives None, and it never raises.
C9_FirstDefaultRecord ==
    result.op = "get_default_value_from_basyx_model" =>
        LET places == RecordsFor("default", result.arg) IN
        IF places = {} THEN result.out = Return(None)
        ELSE result.out
                 = Return(item.embedded_data_specifications[Nth(places, 1)].value)

\* a `default` record for another identifier comes first and is passed over
C9_Witness ==
    /\ result.op = "get_default_value_from_basyx_model"
    /\ Len(item.embedded_data_specifications) >= 2
    /\ item.embedded_data_specifications[1].name = "default"
    /\ RecordsFor("default", result.arg) # {}
    /\ 1 \notin RecordsFor("default", result.arg)
    /\ LET i == Nth(RecordsFor("default", result.arg), 1) IN
           /\ item.embedded_data_specifications[i].value
                  # item.embedded_data_specifications[1].value
           /\ result.out = Return(item.embedded_data_specifications[i].value)

(***************************************************************************)
(* The claims about the encoding pass.                                     *)
(***************************************************************************)
\* the declared shape of an annotation
IncludesNull(annotation) ==
    annotation.text \in {"Optional[int]", "Optional[Union[int, str]]", "int | None"}
SeveralAlternatives(annotation) ==
    annotation.text \in {"Union[int, str]", "Optional[Union[int, str]]", "int | str"}
IsFixedTuple(annotation) ==
    annotation.text = "Tuple[int, str]"

\* C4: once the node carries the class record and the records of every
\* attribute of the type, the queries give back the declared shape of each
\* attribute: optional iff its union includes None, union iff it has more
\* than one alternative besides None, immutable iff it is a fixed tuple,
\* also on a type with two or more tuple attributes.
C4_ShapeRoundTrip ==
    (/\ encoded = Len(fields)
     /\ result.op \in {"is_optional_attribute_type", "is_union_attribute_type",
                       "is_attribute_from_basyx_model_immutable"}) =>
        \A k \in 1..Len(fields) :
            result.arg = fields[k].name =>
                /\ result.op = "is_optional_attribute_type"
                       => result.out.val = IncludesNull(fields[k].annotation)
                /\ result.op = "is_union_attribute_type"
                       => result.out.val = SeveralAlternatives(fields[k].annotation)
                /\ result.op = "is_attribute_from_basyx_model_immutable"
                       => result.out.val = IsFixedTuple(fields[k].annotation)

\* C10: encoding an attribute gives a `default` record only when its
\* descriptor declares a default value.
C10_DefaultRecordOnlyIfDeclared ==
    (result.op = "encode" /\ result.arg.default = PydanticUndefined) =>
        \A k \in 1..Len(result.out.val) : result.out.val[k].name # "default"

\* the places of the records of one tag and payload in a list of records
Tagged(records, name, value) ==
    {k \in 1..Len(records) :
        /\ records[k].iec
        /\ records[k].name = name
        /\ records[k].value = value}

\* C11: the records of an attribute hold a `union` record, with the
\* attribute's name as payload, exactly when its declared shape is a union
\* of more than one alternative besides None; Optional of one type gives an
\* `optional` record and no `union` record, a union of two types and None
\* gives both.
C11_UnionRecordIffSeveralAlternatives ==
    result.op = "encode" =>
        LET annotation == result.arg.annotation
            unions == Tagged(result.out.val, "union", result.arg.name)
            optionals == Tagged(result.out.val, "optional", result.arg.name)
        IN  /\ (unions # {}) <=> SeveralAlternatives(annotation)
            /\ \A k \in 1..Len(result.out.val) :
                   result.out.val[k].name = "union" => k \in unions
            /\ (IncludesNull(annotation) /\ ~SeveralAlternatives(annotation))
                   => (optionals # {} /\ unions = {})
            /\ (IncludesNull(annotation) /\ SeveralAlternatives(annotation))
                   => (optionals # {} /\ unions # {})

\* C12: the records of an attribute hold an `optional` record exactly when
\* its declared shape is a union that includes None; its payload is the
\* attribute's name and its key is a token that the key of no other record
\* of the node equals, whether made in the same call or in an earlier one.
C12_OptionalRecordIffIncludesNull ==
    result.op = "encode" =>
        LET annotation == result.arg.annotation
            eds == item.embedded_data_specifications
            optionals == Tagged(result.out.val, "optional", result.arg.name)
        IN  /\ (optionals # {}) <=> IncludesNull(annotation)
            /\ \A k \in 1..Len(result.out.val) :
                   result.out.val[k].name = "optional" => k \in optionals
            /\ \A j, k \in 1..Len(eds) :
                   (eds[j].name = "optional" /\ j # k) => eds[j].key # eds[k].key

(***************************************************************************)
(* The list patcher: a SubmodelElementCollection that stands for an        *)
(* element of a list carries a generated id_short, and a Property among    *)
(* its children holds the id_short it really has.                          *)
(*                                                                         *)
(* The objects of the tree are the elements of `heap`; an object is named  *)
(* by its place in it, and 0 is None.  An id_short is a sequence of        *)
(* tokens, a reserved prefix being one token.  A Property value is <<>>    *)
(* for None and <<s>> for the string s (<<>> is the empty string).         *)
(***************************************************************************)
\* the most children a SubmodelElementCollection of a tree has when it is read
MaxValues == 3
\* the most elements the list of a tree has
MaxElements == 2

SentinelPrefix == <<"generated_submodel_list_hack_">>
MarkerPrefix == <<"temp_id_short_attribute">>

\* str.startswith
startswith(s, prefix) ==
    /\ Len(s) >= Len(prefix)
    /\ SubSeq(s, 1, Len(prefix)) = prefix

\* a Referable of the tree: `value` is the NamespaceSet of a collection, in
\* insertion order, and `property_value` the value of a Property
Referable(cls, id_short, property_value, value, parent, eds) ==
    [cls |-> cls, id_short |-> id_short, property_value |-> property_value,
     value |-> value, parent |-> parent, embedded_data_specifications |-> eds]

Property(id_short, property_value, parent) ==
    Referable("Property", id_short, property_value, <<>>, parent, <<>>)

SubmodelElementCollection(id_short, value, parent, eds) ==
    Referable("SubmodelElementCollection", id_short, <<>>, value, parent, eds)

\* isinstance(sm_element, model.Property) and
\* sm_element.id_short.startswith("temp_id_short_attribute")
IsTempAttribute(h, o) ==
    /\ h[o].cls = "Property"
    /\ startswith(h[o].id_short, MarkerPrefix)

\* `not id_short`: None and the empty string are both false
Falsy(property_value) == property_value = <<>> \/ property_value = << <<>> >>

\* the loop over smec.value: the children that are kept, and the value of
\* the last temporary attribute met
RECURSIVE UnpatchLoop(_, _, _, _, _)
UnpatchLoop(h, value, i, no_temp_values, id_short) ==
    IF i > Len(value)
    THEN [no_temp_values |-> no_temp_values, id_short |-> id_short]
    ELSE IF IsTempAttribute(h, value[i])
         THEN UnpatchLoop(h, value, i + 1, no_temp_values, h[value[i]].property_value)
    ELSE UnpatchLoop(h, value, i + 1, Append(no_temp_values, value[i]), id_short)

\* NamespaceSet.remove for each of `removed`: the set loses them and each
\* of them loses its parent
RemoveAll(h, smec, removed) ==
    [o \in DOMAIN h |->
        IF o = smec
        THEN [h[o] EXCEPT !.value =
                 SelectSeq(@, LAMBDA c : \A k \in 1..Len(removed) : removed[k] # c)]
        ELSE IF \E k \in 1..Len(removed) : removed[k] = o
             THEN [h[o] EXCEPT !.parent = 0]
        ELSE h[o]]

\* NamespaceSet.add for each of `added`, which have no parent
AddAll(h, smec, added) ==
    [o \in DOMAIN h |->
        IF o = smec THEN [h[o] EXCEPT !.value = @ \o added]
        ELSE IF \E k \in 1..Len(added) : added[k] = o
             THEN [h[o] EXCEPT !.parent = smec]
        ELSE h[o]]

\* the outcome of a call on the tree: the heap it leaves and what it gives
Outcome(h, out) == [heap |-> h, out |-> out]
\* `None.id_short`
RaiseAttributeError == [status |-> "AttributeError", val |-> <<>>]

\* unpatch with the replacement left under the generated id_short
unpatch_keeps_generated_id_short(h, smec) ==
    IF ~startswith(h[smec].id_short, SentinelPrefix) THEN Outcome(h, Return(smec))
    ELSE LET loop == UnpatchLoop(h, h[smec].value, 1, <<>>, <<>>) IN
         IF Falsy(loop.id_short)
         THEN IF h[smec].parent = 0 THEN Outcome(h, RaiseAttributeError)
              ELSE Outcome([h EXCEPT ![smec].parent = 0,
                                     ![smec].id_short = h[h[smec].parent].id_short],
                           Return(smec))
         ELSE LET new_smec == Len(h) + 1
                  removed == RemoveAll(h, smec, loop.no_temp_values)
                  built == Append(removed,
                               SubmodelElementCollection(
                                   h[smec].id_short, <<>>, 0,
                                   h[smec].embedded_data_specifications))
              IN  Outcome(AddAll(built, new_smec, loop.no_temp_values),
                          Return(new_smec))

\* unpatch with every child of the wrapper moved to the replacement
unpatch_moves_every_child(h, smec) ==
    IF ~startswith(h[smec].id_short, SentinelPrefix) THEN Outcome(h, Return(smec))
    ELSE LET loop == UnpatchLoop(h, h[smec].value, 1, <<>>, <<>>) IN
         IF Falsy(loop.id_short)
         THEN IF h[smec].parent = 0 THEN Outcome(h, RaiseAttributeError)
              ELSE Outcome([h EXCEPT ![smec].parent = 0,
                                     ![smec].id_short = h[h[smec].parent].id_short],
                           Return(smec))
         ELSE LET new_smec == Len(h) + 1
                  removed == RemoveAll(h, smec, h[smec].value)
                  built == Append(removed,
                               SubmodelElementCollection(
                                   loop.id_short[1], <<>>, 0,
                                   h[smec].embedded_data_specifications))
              IN  Outcome(AddAll(built, new_smec, h[smec].value),
                          Return(new_smec))

\* unpatch with the kept children left in the set of the wrapper
unpatch_without_remove(h, smec) ==
    IF ~startswith(h[smec].id_short, SentinelPrefix) THEN Outcome(h, Return(smec))
    ELSE LET loop == UnpatchLoop(h, h[smec].value, 1, <<>>, <<>>) IN
         IF Falsy(loop.id_short)
         THEN IF h[smec].parent = 0 THEN Outcome(h, RaiseAttributeError)
              ELSE Outcome([h EXCEPT ![smec].parent = 0,
                                     ![smec].id_short = h[h[smec].parent].id_short],
                           Return(smec))
         ELSE LET new_smec == Len(h) + 1
                  built == Append(h,
                               SubmodelElementCollection(
                                   loop.id_short[1], <<>>, 0,
                                   h[smec].embedded_data_specifications))
              IN  Outcome(AddAll(built, new_smec, loop.no_temp_values),
                          Return(new_smec))

\* `h` is the heap before the call and `smec` the place of the collection;
\* with no temporary attribute found the collection takes the id_short of
\* its parent and `smec.parent = None` clears its reference to the parent,
\* which is all that the assignment does; otherwise the kept children move
\* to a new collection, built at the end of the heap
unpatch_id_short_from_temp_attribute(h, smec) ==
    IF ~startswith(h[smec].id_short, SentinelPrefix) THEN Outcome(h, Return(smec))
    ELSE LET loop == UnpatchLoop(h, h[smec].value, 1, <<>>, <<>>) IN
         IF Falsy(loop.id_short)
         THEN IF h[smec].parent = 0 THEN Outcome(h, RaiseAttributeError)
              ELSE Outcome([h EXCEPT ![smec].parent = 0,
                                     ![smec].id_short = h[h[smec].parent].id_short],
                           Return(smec))
         ELSE LET new_smec == Len(h) + 1
                  removed == RemoveAll(h, smec, loop.no_temp_values)
                  built == Append(removed,
                               SubmodelElementCollection(
                                   loop.id_short[1], <<>>, 0,
                                   h[smec].embedded_data_specifications))
              IN  Outcome(AddAll(built, new_smec, loop.no_temp_values),
                          Return(new_smec))

\* temp_smec.value.clear() takes the parent from every child of temp_smec,
\* and smec.value.add gives each of them smec as its parent
repatch_id_short_to_temp_attribute(h, smec, temp_smec) ==
    LET values_to_repatch == h[temp_smec].value
        cleared == RemoveAll(h, temp_smec, values_to_repatch)
    IN  Outcome(AddAll(cleared, smec, values_to_repatch), Return(smec))

\* the sentinel id_short with the n-th suffix
Sentinel(n) == SentinelPrefix \o [k \in 1..n |-> "1"]

\* the inverse of unpatch: a Property that holds the id_short of the
\* collection becomes its first child, and the collection takes the next
\* sentinel id_short
patch_id_short_with_temp_attribute(h, smec, n) ==
    LET temp == Len(h) + 1
        renamed == [h EXCEPT ![smec].id_short = Sentinel(n),
                             ![smec].value = <<temp>> \o @]
    IN  Outcome(Append(renamed, Property(MarkerPrefix, <<h[smec].id_short>>, smec)),
                Return(smec))

(***************************************************************************)
(* SpecPatch: the trees the list patcher is called on.  A tree is a        *)
(* Submodel (object 1) and the collections under it; it is either read     *)
(* from elsewhere, with one collection of any children, or built from a    *)
(* list, whose elements are then patched, unpatched and repatched.         *)
(***************************************************************************)
\* a child as a tree is built with it
Kid(cls, id_short, property_value) ==
    [cls |-> cls, id_short |-> id_short, property_value |-> property_value]

PlainKids ==
    <<Kid("Property", <<"x">>, << <<"v">> >>),
      Kid("SubmodelElementCollection", <<"y">>, <<>>)>>

KidChoices ==
    {Kid("Property", MarkerPrefix, << <<"e">> >>),
     Kid("Property", MarkerPrefix, <<>>),
     Kid("Property", MarkerPrefix, << <<>> >>),
     Kid("Property", MarkerPrefix \o <<"2">>, << <<"f">> >>),
     Kid("SubmodelElementCollection", MarkerPrefix \o <<"3">>, <<>>),
     PlainKids[1], PlainKids[2]}

\* a NamespaceSet holds no two children of one id_short
KidLists(choices, longest) ==
    UNION {{ks \in [1..n -> choices] :
               \A j, k \in 1..n : j # k => ks[j].id_short # ks[k].id_short} :
           n \in 0..longest}

\* a collection as a tree is built with it; parent 1 is the Submodel
Collection(id_short, kids, parent, eds) ==
    [id_short |-> id_short, kids |-> kids, parent |-> parent, eds |-> eds]

TreeRecords == {<<>>, <<Rec(<< <<"a">> >>, "class", <<"C">>)>>}

\* a tree read from elsewhere: one collection, a wrapper by its id_short or
\* not, under the Submodel or under nothing
ForeignCollections ==
    {<<Collection(id_short, kids, parent, eds)>> :
        id_short \in {Sentinel(1), <<"e">>},
        kids \in KidLists(KidChoices, MaxValues),
        parent \in {0, 1}, eds \in TreeRecords}

\* a tree built from a list: element k has the k-th id_short
ElementIdShort(k) == [j \in 1..k |-> "e"]

ElementCollections ==
    UNION {[1..n -> {Collection(<<>>, SubSeq(PlainKids, 1, m), 1, eds) :
                        m \in {0, Len(PlainKids)}, eds \in TreeRecords \ {<<>>}}] :
           n \in 1..MaxElements}

RECURSIVE Build(_, _, _)
Build(acc, collections, k) ==
    IF k > Len(collections) THEN acc
    ELSE LET c == collections[k]
             smec == Len(acc.heap) + 1
             kids == [j \in 1..Len(c.kids) |->
                         Referable(c.kids[j].cls, c.kids[j].id_short,
                                   c.kids[j].property_value, <<>>, smec, <<>>)]
             coll == SubmodelElementCollection(
                         IF c.id_short = <<>> THEN ElementIdShort(k) ELSE c.id_short,
                         [j \in 1..Len(c.kids) |-> smec + j],
                         c.parent, c.eds)
         IN  Build([heap |-> (acc.heap \o <<coll>>) \o kids,
                    objects |-> Append(acc.objects, smec)], collections, k + 1)

\* the heap of a tree and the places of its collections
Tree(collections) ==
    LET built == Build([heap |-> <<Referable("Submodel", <<"s">>, <<>>, <<>>, 0, <<>>)>>,
                        objects |-> <<>>], collections, 1)
        under == SelectSeq(built.objects, LAMBDA o : built.heap[o].parent = 1)
    IN  [heap |-> [built.heap EXCEPT ![1].value = under],
         objects |-> built.objects]

\* what is kept of a collection of the tree: its place and what it was built with
Element(h, o) ==
    [object |-> o, id_short |-> h[o].id_short, value |-> h[o].value,
     embedded_data_specifications |-> h[o].embedded_data_specifications]

\* the collections that unpatch has built: those behind the objects the
\* tree was built with
Replacements ==
    LET last == elements[Len(elements)]
        built == last.object + Len(last.value)
    IN  {o \in DOMAIN heap :
            o > built /\ heap[o].cls = "SubmodelElementCollection"}

CallPatch(k) ==
    /\ k \in 1..Len(elements)
    /\ LET smec == elements[k].object IN
           /\ heap[smec].parent = 1
           /\ ~startswith(heap[smec].id_short, SentinelPrefix)
           /\ \A j \in 1..Len(heap[smec].value) :
                  ~IsTempAttribute(heap, heap[smec].value[j])
           /\ LET outcome == patch_id_short_with_temp_attribute(
                                 heap, smec, suffix + 1)
              IN  /\ heap' = outcome.heap
                  /\ result' = Call("patch_id_short_with_temp_attribute",
                                    smec, outcome.out)
    /\ suffix' = suffix + 1
    /\ UNCHANGED <<item, enc, elements>>

CallUnpatch(smec) ==
    /\ smec \in DOMAIN heap
    /\ Cardinality(Replacements) < Len(elements)
    /\ heap[smec].cls = "SubmodelElementCollection"
    /\ LET outcome == unpatch_id_short_from_temp_attribute(heap, smec) IN
           /\ heap' = outcome.heap
           /\ result' = Call("unpatch_id_short_from_temp_attribute",
                             smec, outcome.out)
    /\ UNCHANGED <<item, enc, suffix, elements>>

\* the collection unpatch was called on takes back the children of the one
\* unpatch gave
CallRepatch ==
    /\ result.op = "unpatch_id_short_from_temp_attribute"
    /\ result.out.status = "return"
    /\ LET outcome == repatch_id_short_to_temp_attribute(
                          heap, result.arg, result.out.val)
       IN  /\ heap' = outcome.heap
           /\ result' = Call("repatch_id_short_to_temp_attribute",
                             result.arg, outcome.out)
    /\ UNCHANGED <<item, enc, suffix, elements>>

InitPatch ==
    /\ item \in PredicateNodes
    /\ item.kind = "Submodel"
    /\ fields = <<>>
    /\ encoded = 0
    /\ uuids = 0
    /\ suffix = 0
    /\ result = Idle
    /\ \/ \E collections \in ForeignCollections :
              LET t == Tree(collections) IN
                  /\ heap = t.heap
                  /\ elements = [k \in 1..Len(t.objects) |->
                                    Element(t.heap, t.objects[k])]
       \/ \E collections \in ElementCollections :
              LET t == Tree(collections) IN
                  /\ heap = t.heap
                  /\ elements = [k \in 1..Len(t.objects) |->
                                    Element(t.heap, t.objects[k])]

NextPatch ==
    \/ \E k \in 1..MaxElements : CallPatch(k)
    \/ \E smec \in DOMAIN heap : CallUnpatch(smec)
    \/ CallRepatch

SpecPatch == InitPatch /\ [][NextPatch]_vars

(***************************************************************************)
(* The claims about the list patcher.  A claim about a call relates the    *)
(* tree before the call to the tree after it.                              *)
(***************************************************************************)
\* the places, among the children of a collection, of the temporary attributes
TempAttributes(h, smec) ==
    {j \in 1..Len(h[smec].value) : IsTempAttribute(h, h[smec].value[j])}

\* the other children of a collection, in order
OtherValues(h, smec) ==
    SelectSeq(h[smec].value, LAMBDA c : ~IsTempAttribute(h, c))

\* a wrapper: a collection under a generated id_short
IsWrapper(h, smec) ==
    /\ h[smec].cls = "SubmodelElementCollection"
    /\ startswith(h[smec].id_short, SentinelPrefix)

\* the last temporary attribute of a collection that has one
LastTemp(h, smec) ==
    h[smec].value[CHOOSE j \in TempAttributes(h, smec) :
                      \A k \in TempAttributes(h, smec) : k <= j]

\* a collection built by the call: other than the wrapper, its children
\* the wrapper's other children and no temporary attribute among them, its
\* records the wrapper's
IsReplacement(smec, new_smec) ==
    /\ new_smec \notin DOMAIN heap
    /\ new_smec \in DOMAIN heap'
    /\ heap'[new_smec].cls = "SubmodelElementCollection"
    /\ heap'[new_smec].value = OtherValues(heap, smec)
    /\ \A j \in 1..Len(heap'[new_smec].value) :
           heap'[heap'[new_smec].value[j]].parent = new_smec
    /\ TempAttributes(heap', new_smec) = {}
    /\ heap'[new_smec].embedded_data_specifications
           = heap[smec].embedded_data_specifications

\* C13, as stated: unpatch of a wrapper that has a temporary attribute
\* among its children gives a new collection whose id_short is the value a
\* temporary attribute holds, whose children are the wrapper's other
\* children, whose records are the wrapper's, and which has no temporary
\* attribute.
C13_FoundCaseAnyValue ==
    [][result'.op = "unpatch_id_short_from_temp_attribute" =>
          LET smec == result'.arg IN
              (IsWrapper(heap, smec) /\ TempAttributes(heap, smec) # {}) =>
                  /\ result'.out.status = "return"
                  /\ IsReplacement(smec, result'.out.val)
                  /\ \E j \in TempAttributes(heap, smec) :
                         <<heap'[result'.out.val].id_short>>
                             = heap[heap[smec].value[j]].property_value]_vars

\* C13, amended: the same, for a wrapper whose last temporary attribute
\* holds a value that is neither None nor the empty string; the id_short
\* of the new collection is that value.
C13_FoundCaseNonEmptyValue ==
    [][result'.op = "unpatch_id_short_from_temp_attribute" =>
          LET smec == result'.arg IN
              (/\ IsWrapper(heap, smec)
               /\ TempAttributes(heap, smec) # {}
               /\ ~Falsy(heap[LastTemp(heap, smec)].property_value)) =>
                  /\ result'.out.status = "return"
                  /\ IsReplacement(smec, result'.out.val)
                  /\ <<heap'[result'.out.val].id_short>>
                         = heap[LastTemp(heap, smec)].property_value]_vars

\* unpatch has given a new collection that took a child over, and has left
\* a wrapper that keeps its temporary attributes and nothing else
C13_Witness ==
    /\ result.op = "unpatch_id_short_from_temp_attribute"
    /\ result.out.status = "return"
    /\ result.out.val # result.arg
    /\ IsWrapper(heap, result.arg)
    /\ heap[result.out.val].value # <<>>
    /\ heap[result.out.val].embedded_data_specifications # <<>>
    /\ heap[result.out.val].id_short = <<"f">>
    /\ Cardinality(TempAttributes(heap, result.arg)) = Len(heap[result.arg].value)
    /\ Len(heap[result.arg].value) = 2

\* C14: unpatch of a wrapper that has no temporary attribute among its
\* children and has a parent gives the wrapper itself, under the id_short
\* of that parent, with no parent, and no longer among the children of
\* that parent.
C14_MalformedWrapperDetached ==
    [][result'.op = "unpatch_id_short_from_temp_attribute" =>
          LET smec == result'.arg
              parent == heap[smec].parent
          IN  (/\ IsWrapper(heap, smec)
               /\ TempAttributes(heap, smec) = {}
               /\ parent # 0) =>
                  /\ result'.out = Return(smec)
                  /\ heap'[smec].id_short = heap[parent].id_short
                  /\ heap'[smec].parent = 0
                  /\ \A j \in 1..Len(heap'[parent].value) :
                         heap'[parent].value[j] # smec]_vars

\* the wrapper of the k-th collection as patch leaves it: one temporary
\* attribute, which holds the id_short the collection was built with, and
\* the children it was built with
IsWrapperOf(h, k) ==
    LET smec == elements[k].object IN
        /\ IsWrapper(h, smec)
        /\ OtherValues(h, smec) = elements[k].value
        /\ Cardinality(TempAttributes(h, smec)) = 1
        /\ h[LastTemp(h, smec)].property_value = <<elements[k].id_short>>

\* C15: patch turns a collection of the list into a wrapper whose
\* generated id_short no other object of the tree has, with one temporary
\* attribute and the children the collection had; unpatch of such a
\* wrapper, whichever wrappers were unpatched before it, gives a
\* collection with the id_short and the children the element was built
\* with and no temporary attribute.
C15_RoundTrip ==
    [][/\ result'.op = "patch_id_short_with_temp_attribute" =>
              LET smec == result'.arg IN
                  /\ \E k \in 1..Len(elements) :
                         elements[k].object = smec /\ IsWrapperOf(heap', k)
                  /\ OtherValues(heap', smec) = heap[smec].value
                  /\ \A o \in DOMAIN heap' :
                         o # smec => heap'[o].id_short # heap'[smec].id_short
       /\ result'.op = "unpatch_id_short_from_temp_attribute" =>
              \A k \in 1..Len(elements) :
                  (elements[k].object = result'.arg /\ IsWrapperOf(heap, k)) =>
                      /\ result'.out.status = "return"
                      /\ IsReplacement(result'.arg, result'.out.val)
                      /\ heap'[result'.out.val].id_short = elements[k].id_short
                      /\ heap'[result'.out.val].value = elements[k].value]_vars

\* both elements of a list of two were patched, the second was unpatched
\* and then the first: each wrapper keeps its temporary attribute only, and
\* each element has a collection with its id_short and its children
C15_Witness ==
    /\ Len(elements) = 2
    /\ result.op = "unpatch_id_short_from_temp_attribute"
    /\ result.arg = elements[1].object
    /\ elements[1].value # <<>>
    /\ \A k \in 1..2 :
           /\ IsWrapper(heap, elements[k].object)
           /\ heap[elements[k].object].id_short = Sentinel(k)
           /\ OtherValues(heap, elements[k].object) = <<>>
           /\ Cardinality(TempAttributes(heap, elements[k].object)) = 1
    /\ \A k \in 1..2 :
           \E o \in Replacements :
               /\ heap[o].id_short = elements[k].id_short
               /\ heap[o].value = elements[k].value
    /\ \E o \in Replacements :
           heap[o].id_short = elements[2].id_short /\ o < result.out.val

(***************************************************************************)
(* The functions of one argument and no tree: the description of a         *)
(* LangStringSet, the two directions of the datatype table and the         *)
(* attributes of a pydantic object.                                        *)
(***************************************************************************)
\* the most entries a LangStringSet is read with
MaxLangs == 2
\* the most fields a pydantic object is read with
MaxAttributes == 2

\* a LangStringSet is a mapping in insertion order: a sequence of entries
LangString(lang, text) == [lang |-> lang, text |-> text]

RECURSIVE LangGet(_, _, _)
\* langstring_set.get(lang), from entry i on; <<>> when the key is absent
LangGet(langstring_set, i, lang) ==
    IF i > Len(langstring_set) THEN <<>>
    ELSE IF langstring_set[i].lang = lang THEN <<langstring_set[i].text>>
    ELSE LangGet(langstring_set, i + 1, lang)

\* get_str_description with "de" tried before "ger"
get_str_description_de_first(langstring_set) ==
    IF langstring_set = <<>> \/ langstring_set[1] = <<>> THEN Return(<<>>)
    ELSE LET set == langstring_set[1] IN
         IF LangGet(set, 1, <<"e", "n">>) # <<>>
         THEN Return(LangGet(set, 1, <<"e", "n">>)[1])
         ELSE IF LangGet(set, 1, <<"d", "e">>) # <<>>
         THEN Return(LangGet(set, 1, <<"d", "e">>)[1])
         ELSE IF LangGet(set, 1, <<"g", "e", "r">>) # <<>>
         THEN Return(LangGet(set, 1, <<"g", "e", "r">>)[1])
         ELSE Return(set[1].text)

\* `langstring_set` is <<>> for None and <<set>> for a LangStringSet; the
\* texts are strings, which str() gives back as they are
get_str_description(langstring_set) ==
    IF langstring_set = <<>> \/ langstring_set[1] = <<>> THEN Return(<<>>)
    ELSE LET set == langstring_set[1] IN
         IF LangGet(set, 1, <<"e", "n">>) # <<>>
         THEN Return(LangGet(set, 1, <<"e", "n">>)[1])
         ELSE IF LangGet(set, 1, <<"g", "e", "r">>) # <<>>
         THEN Return(LangGet(set, 1, <<"g", "e", "r">>)[1])
         ELSE IF LangGet(set, 1, <<"d", "e">>) # <<>>
         THEN Return(LangGet(set, 1, <<"d", "e">>)[1])
         ELSE Return(set[1].text)

\* the classes of basyx datatypes that the chain of comparisons names
IntegerXsdTypes ==
    {"Integer", "Long", "Int", "Short", "Byte", "NonPositiveInteger",
     "NegativeInteger", "NonNegativeInteger", "PositiveInteger",
     "UnsignedLong", "UnsignedInt", "UnsignedShort", "UnsignedByte"}
\* the classes of basyx datatypes it leaves for later (the TODO)
CalendarXsdTypes == {"GYearMonth", "GYear", "GMonthDay", "GDay", "GMonth"}

RaiseNotImplementedError == [status |-> "NotImplementedError", val |-> <<>>]

\* convert_xsdtype_to_primitive_type with Boolean left out of the chain
convert_xsdtype_without_boolean(xsd_data_type) ==
    IF xsd_data_type = "Duration" THEN Return(<<"str">>)
    ELSE IF xsd_data_type = "DateTime" THEN Return(<<"datetime.datetime">>)
    ELSE IF xsd_data_type = "Date" THEN Return(<<"datetime.datetime">>)
    ELSE IF xsd_data_type = "Time" THEN Return(<<"datetime.time">>)
    ELSE IF xsd_data_type \in {"Base64Binary", "HexBinary"} THEN Return(<<"bytes">>)
    ELSE IF xsd_data_type \in {"Float", "Double", "Decimal"} THEN Return(<<"float">>)
    ELSE IF xsd_data_type \in IntegerXsdTypes THEN Return(<<"int">>)
    ELSE IF xsd_data_type \in {"AnyURI", "String", "NormalizedString"}
         THEN Return(<<"str">>)
    ELSE Return(None)

\* a chain of if / elif with no else: a class that no branch names falls
\* off its end, and the function returns None
convert_xsdtype_to_primitive_type(xsd_data_type) ==
    IF xsd_data_type = "Duration" THEN Return(<<"str">>)
    ELSE IF xsd_data_type = "DateTime" THEN Return(<<"datetime.datetime">>)
    ELSE IF xsd_data_type = "Date" THEN Return(<<"datetime.datetime">>)
    ELSE IF xsd_data_type = "Time" THEN Return(<<"datetime.time">>)
    ELSE IF xsd_data_type = "Boolean" THEN Return(<<"bool">>)
    ELSE IF xsd_data_type \in {"Base64Binary", "HexBinary"} THEN Return(<<"bytes">>)
    ELSE IF xsd_data_type \in {"Float", "Double", "Decimal"} THEN Return(<<"float">>)
    ELSE IF xsd_data_type \in IntegerXsdTypes THEN Return(<<"int">>)
    ELSE IF xsd_data_type \in {"AnyURI", "String", "NormalizedString"}
         THEN Return(<<"str">>)
    ELSE Return(None)

\* convert_primitive_type_to_xsdtype with String for a type it does not know
convert_primitive_type_default_string(primitive_type) ==
    IF primitive_type = "datetime.datetime" THEN Return(<<"DateTime">>)
    ELSE IF primitive_type = "datetime.time" THEN Return(<<"Time">>)
    ELSE IF primitive_type = "bool" THEN Return(<<"Boolean">>)
    ELSE IF primitive_type = "bytes" THEN Return(<<"Base64Binary">>)
    ELSE IF primitive_type = "float" THEN Return(<<"Double">>)
    ELSE IF primitive_type = "int" THEN Return(<<"Integer">>)
    ELSE Return(<<"String">>)

\* the comparisons are of classes, so a subclass of a supported type is
\* another type
convert_primitive_type_to_xsdtype(primitive_type) ==
    IF primitive_type = "str" THEN Return(<<"String">>)
    ELSE IF primitive_type = "datetime.datetime" THEN Return(<<"DateTime">>)
    ELSE IF primitive_type = "datetime.time" THEN Return(<<"Time">>)
    ELSE IF primitive_type = "bool" THEN Return(<<"Boolean">>)
    ELSE IF primitive_type = "bytes" THEN Return(<<"Base64Binary">>)
    ELSE IF primitive_type = "float" THEN Return(<<"Double">>)
    ELSE IF primitive_type = "int" THEN Return(<<"Integer">>)
    ELSE RaiseNotImplementedError

\* a field of a pydantic object: its name, a sequence of tokens whose first
\* is "_" for a name with a leading underscore, its FieldInfo, and the
\* value getattr gives, <<>> for None
Attribute(name, field_info, value) ==
    [name |-> name, field_info |-> field_info, value |-> value]

StandardAttributes ==
    {<<"id">>, <<"description">>, <<"id_short">>, <<"semantic_id">>}

\* AttributeFieldInfo(name=..., field_info=...)
FieldInfoOf(attribute) ==
    [name |-> attribute.name, field_info |-> attribute.field_info]

\* the two `continue` of the loop over model_fields.items()
IsSkipped(attribute) ==
    \/ attribute.name \in StandardAttributes
    \/ startswith(attribute.name, <<"_">>)

\* `model_fields` is the fields of the type in the order of declaration
get_attribute_field_infos(model_fields) ==
    LET kept == SelectSeq(model_fields, LAMBDA attribute : ~IsSkipped(attribute))
    IN  [k \in 1..Len(kept) |-> FieldInfoOf(kept[k])]

\* the same loop, with the value of each attribute that is kept
get_attribute_infos(model_fields) ==
    SelectSeq(model_fields, LAMBDA attribute : ~IsSkipped(attribute))

(***************************************************************************)
(* SpecConvert: one call of one of these functions after another.          *)
(***************************************************************************)
Langs == {<<"e", "n">>, <<"g", "e", "r">>, <<"d", "e">>, <<"f", "r">>, <<"i", "t">>}
Texts == {<<"A">>, <<"B">>}

\* None, and the mappings of at most MaxLangs keys
LangStringSets ==
    {<<>>} \cup
    UNION {{<<set>> : set \in
               {ls \in [1..n -> {LangString(lang, text) :
                                    lang \in Langs, text \in Texts}] :
                   \A j, k \in 1..n : j # k => ls[j].lang # ls[k].lang}} :
           n \in 0..MaxLangs}

\* the datatype table of the tree format
TableXsdTypes ==
    {"Duration", "DateTime", "Date", "Time", "Boolean", "Base64Binary",
     "HexBinary", "Float", "Double", "Decimal", "AnyURI", "String",
     "NormalizedString"} \cup IntegerXsdTypes
XsdTypes == TableXsdTypes \cup CalendarXsdTypes

\* the types convert_primitive_type_to_xsdtype compares with
SupportedTypes ==
    {"str", "datetime.datetime", "datetime.time", "bool", "bytes", "float", "int"}
\* other types of the host, two of them subclasses of a supported type
OtherTypes ==
    {"datetime.date", "decimal.Decimal", "bytearray", "list", "NoneType",
     "enum.IntEnum", "datatypes.NormalizedString"}
PrimitiveTypes == SupportedTypes \cup OtherTypes

\* pydantic makes no field of a name with a leading underscore
AttributeChoices ==
    {Attribute(name, "FieldInfo", value) :
        name \in StandardAttributes \cup {<<"x">>, <<"y">>, <<"x", "_">>},
        value \in {<<>>, <<"v">>}}

ModelFields ==
    UNION {{fs \in [1..n -> AttributeChoices] :
               \A j, k \in 1..n : j # k => fs[j].name # fs[k].name} :
           n \in 0..MaxAttributes}

CallGetStrDescription(langstring_set) ==
    /\ result' = Call("get_str_description", langstring_set,
                      get_str_description(langstring_set))
    /\ UNCHANGED <<item, enc, tree>>

CallConvertXsdtype(xsd_data_type) ==
    /\ result' = Call("convert_xsdtype_to_primitive_type", xsd_data_type,
                      convert_xsdtype_to_primitive_type(xsd_data_type))
    /\ UNCHANGED <<item, enc, tree>>

CallConvertPrimitiveType(primitive_type) ==
    /\ result' = Call("convert_primitive_type_to_xsdtype", primitive_type,
                      convert_primitive_type_to_xsdtype(primitive_type))
    /\ UNCHANGED <<item, enc, tree>>

CallGetAttributeInfos(model_fields) ==
    /\ result' = Call("get_attribute_infos", model_fields,
                      Return(get_attribute_infos(model_fields)))
    /\ UNCHANGED <<item, enc, tree>>

CallGetAttributeFieldInfos(model_fields) ==
    /\ result' = Call("get_attribute_field_infos", model_fields,
                      Return(get_attribute_field_infos(model_fields)))
    /\ UNCHANGED <<item, enc, tree>>

InitConvert ==
    /\ item \in PredicateNodes
    /\ item.kind = "Submodel"
    /\ fields = <<>>
    /\ encoded = 0
    /\ uuids = 0
    /\ heap = <<>>
    /\ suffix = 0
    /\ elements = <<>>
    /\ result = Idle

NextConvert ==
    \/ \E langstring_set \in LangStringSets : CallGetStrDescription(langstring_set)
    \/ \E xsd_data_type \in XsdTypes : CallConvertXsdtype(xsd_data_type)
    \/ \E primitive_type \in PrimitiveTypes : CallConvertPrimitiveType(primitive_type)
    \/ \E model_fields \in ModelFields : CallGetAttributeInfos(model_fields)
    \/ \E model_fields \in ModelFields : CallGetAttributeFieldInfos(model_fields)

SpecConvert == InitConvert /\ [][NextConvert]_vars

(***************************************************************************)
(* The claims about these functions.                                       *)
(***************************************************************************)
\* the languages that are keys of a mapping
Keys(set) == {set[k].lang : k \in 1..Len(set)}
\* the text under a key of a mapping
TextOf(set, lang) == set[CHOOSE k \in 1..Len(set) : set[k].lang = lang].text

\* C16: the description of a mapping is its "en" text if it has one, else
\* its "ger" text, else its "de" text, else the text under its first key;
\* the description of None and of the empty mapping is the empty string.
\* So {de: A, fr: B} gives A and {fr: B} gives B.
C16_DescriptionFallback ==
    result.op = "get_str_description" =>
        IF result.arg = <<>> \/ result.arg[1] = <<>>
        THEN result.out = Return(<<>>)
        ELSE LET set == result.arg[1] IN
             /\ result.out.status = "return"
             /\ <<"e", "n">> \in Keys(set)
                    => result.out.val = TextOf(set, <<"e", "n">>)
             /\ (<<"e", "n">> \notin Keys(set) /\ <<"g", "e", "r">> \in Keys(set))
                    => result.out.val = TextOf(set, <<"g", "e", "r">>)
             /\ (/\ <<"e", "n">> \notin Keys(set)
                 /\ <<"g", "e", "r">> \notin Keys(set)
                 /\ <<"d", "e">> \in Keys(set))
                    => result.out.val = TextOf(set, <<"d", "e">>)
             /\ Keys(set) \cap {<<"e", "n">>, <<"g", "e", "r">>, <<"d", "e">>} = {}
                    => result.out.val = set[1].text
             /\ set = <<LangString(<<"d", "e">>, <<"A">>),
                        LangString(<<"f", "r">>, <<"B">>)>>
                    => result.out.val = <<"A">>
             /\ set = <<LangString(<<"f", "r">>, <<"B">>)>>
                    => result.out.val = <<"B">>

\* a mapping with "ger" and "de" in it, "de" first: its "ger" text is given
C16_Witness ==
    /\ result.op = "get_str_description"
    /\ result.arg = <<<<LangString(<<"d", "e">>, <<"A">>),
                        LangString(<<"g", "e", "r">>, <<"B">>)>>>>
    /\ result.out = Return(<<"B">>)

\* C17: every datatype of the table decodes to a supported type; for every
\* supported type, the datatype it encodes to decodes to that type; int
\* encodes to Integer, and bool to no integer datatype.
C17_CodecRoundTrip ==
    /\ (result.op = "convert_xsdtype_to_primitive_type"
        /\ result.arg \in TableXsdTypes) =>
           /\ result.out.status = "return"
           /\ result.out.val[1] \in SupportedTypes
    /\ (result.op = "convert_primitive_type_to_xsdtype"
        /\ result.arg \in SupportedTypes) =>
           /\ result.out.status = "return"
           /\ result.out.val[1] \in TableXsdTypes
           /\ convert_xsdtype_to_primitive_type(result.out.val[1])
                  = Return(<<result.arg>>)
           /\ result.arg = "int" => result.out.val = <<"Integer">>
           /\ result.arg = "bool" => result.out.val[1] \notin IntegerXsdTypes

\* bool was encoded: to Boolean, which decodes to bool
C17_Witness ==
    /\ result.op = "convert_primitive_type_to_xsdtype"
    /\ result.arg = "bool"
    /\ result.out = Return(<<"Boolean">>)
    /\ convert_xsdtype_to_primitive_type("Boolean") = Return(<<"bool">>)

\* C18: decoding GYearMonth, GYear, GMonthDay, GDay or GMonth raises
\* NotImplementedError; it returns nothing, neither a type nor None.
C18_CalendarTypesRaise ==
    (result.op = "convert_xsdtype_to_primitive_type"
     /\ result.arg \in CalendarXsdTypes) =>
        result.out = RaiseNotImplementedError

\* C19: encoding returns a datatype exactly for the seven supported types
\* and raises NotImplementedError for every other type.
C19_EncodePartial ==
    result.op = "convert_primitive_type_to_xsdtype" =>
        /\ result.out.status = "return" <=> result.arg \in SupportedTypes
        /\ result.arg \notin SupportedTypes => result.out = RaiseNotImplementedError

\* a subclass of str was encoded: NotImplementedError
C19_Witness ==
    /\ result.op = "convert_primitive_type_to_xsdtype"
    /\ result.arg = "datatypes.NormalizedString"
    /\ result.out = RaiseNotImplementedError

\* the names of a list of attributes
Names(attribute_infos) ==
    [k \in 1..Len(attribute_infos) |-> attribute_infos[k].name]

\* C20: both functions give, in the order of declaration, the attributes
\* that are not None, whose name has no leading underscore and is not id,
\* description, id_short or semantic_id; both give the same names.
C20_AttributesNotNone ==
    result.op \in {"get_attribute_infos", "get_attribute_field_infos"} =>
        /\ Names(result.out.val)
               = Names(SelectSeq(result.arg,
                           LAMBDA attribute :
                               /\ attribute.value # <<>>
                               /\ ~startswith(attribute.name, <<"_">>)
                               /\ attribute.name \notin StandardAttributes))
        /\ Names(get_attribute_infos(result.arg))
               = Names(get_attribute_field_infos(result.arg))

(***************************************************************************)
(* The claims that relate the writing of records to the reading of them.   *)
(***************************************************************************)
\* the identifier the record of an object is keyed to: the id of a shell
\* or submodel, the id_short of a collection
Identifier(it) == IF HasId(it.kind) THEN it.id ELSE it.id_short

\* the record get_data_specification_for_model builds for the object of a
\* class name that the node stands for
BuiltClassRecord(class_name) ==
    get_data_specification_for_model(
        ModelObject(item.kind, item.id, item.id_short, class_name))[1]

\* the places of the `class` records of the node
ClassRecords ==
    {i \in 1..Len(item.embedded_data_specifications) :
        /\ item.embedded_data_specifications[i].iec
        /\ item.embedded_data_specifications[i].name = "class"}

\* C21, as stated: a node that carries the class record built for an
\* object of its identifier resolves to the class name of the object,
\* whatever records of other tags, and whatever `class` records keyed to
\* other identifiers than the id of a shell or submodel or the id_short of
\* a collection, come before or after it.
C21_ClassRoundTripOtherIdentifier ==
    result.op = "get_class_name_from_basyx_model" =>
        \A class_name \in ClassNames :
            \A i \in ClassRecords :
                (/\ item.embedded_data_specifications[i] = BuiltClassRecord(class_name)
                 /\ \A j \in ClassRecords \ {i} :
                        ~AnyKey(item.embedded_data_specifications[j],
                                Identifier(item))) =>
                    result.out = Return(class_name)

\* C21, amended: the same, whatever records of other tags, and whatever
\* `class` records keyed neither to the id_short of the node nor to the id
\* of a shell or submodel, come before or after it.
C21_ClassRoundTripOtherNode ==
    result.op = "get_class_name_from_basyx_model" =>
        \A class_name \in ClassNames :
            \A i \in ClassRecords :
                (/\ item.embedded_data_specifications[i] = BuiltClassRecord(class_name)
                 /\ OwnClassRecords = {i}) =>
                    result.out = Return(class_name)

\* a `class` record of another node comes first and a record of another
\* tag last; the class name is that of the record built for the node
C21_Witness ==
    /\ result.op = "get_class_name_from_basyx_model"
    /\ Len(item.embedded_data_specifications) = 3
    /\ item.embedded_data_specifications[1] = Rec(<<OtherId>>, "class", <<"D">>)
    /\ item.embedded_data_specifications[2] = BuiltClassRecord(<<"C">>)
    /\ item.embedded_data_specifications[3].name = "attribute"
    /\ result.out = Return(<<"C">>)

Holders(h, o) ==
    {n \in DOMAIN h : \E j \in 1..Len(h[n].value) : h[n].value[j] = o}

=============================================================================
